---- MODULE Spec2Model ----
(***************************************************************************)
(* Model of pokemon_normalize_ass.py: the reference registry (MetaPokemon), *)
(* the fuzzy matcher, the tokenizer and the two-pass normalizer             *)
(* fix_line_with_meta with its right-to-left span rewriter.                 *)
(*                                                                         *)
(* A string is a sequence of characters; a character is a one-character     *)
(* TLA+ string.  Offsets are Python offsets: 0-based, half-open.            *)
(***************************************************************************)
EXTENDS Integers, Sequences, FiniteSets, TLC

\* ------------------------------------------------------------------------
\* Characters and the str methods the code uses
\* ------------------------------------------------------------------------
UpperChars == <<"A","B","C","D","E","F","G","H","I","J","K","L","M",
                "N","O","P","Q","R","S","T","U","V","W","X","Y","Z">>

LowerChars == <<"a","b","c","d","e","f","g","h","i","j","k","l","m",
                "n","o","p","q","r","s","t","u","v","w","x","y","z">>

DigitChars == {"0","1","2","3","4","5","6","7","8","9"}

\* U+2019, the right single quotation mark removed by .replace("’", "")
RSQuo == "rsquo"

Range(s) == {s[k] : k \in DOMAIN s}

UpperSet == Range(UpperChars)

LowerSet == Range(LowerChars)

\* the tail of WORD_RE: [A-Za-z0-9'-]
WordCharSet == UpperSet \cup LowerSet \cup DigitChars \cup {"'", "-"}

ToLower == [c \in UpperSet |->
              LowerChars[CHOOSE k \in DOMAIN UpperChars : UpperChars[k] = c]]

IsUpperChar(c) == c \in UpperSet

IsLowerChar(c) == c \in LowerSet

IsAlpha(c) == IsUpperChar(c) \/ IsLowerChar(c)

IsWordChar(c) == c \in WordCharSet

\* c.lower()
LowerChar(c) == IF IsUpperChar(c) THEN ToLower[c] ELSE c

\* str.lower()
Lower(s) == [k \in DOMAIN s |-> LowerChar(s[k])]

\* str.isupper(): some cased character, and no lowercase one
IsUpperStr(s) ==
    /\ \E k \in DOMAIN s : IsUpperChar(s[k])
    /\ \A k \in DOMAIN s : ~IsLowerChar(s[k])

Abs(x) == IF x < 0 THEN -x ELSE x

Max(x, y) == IF x < y THEN y ELSE x

\* line[a:b] for 0 <= a <= b <= len(line)
Slice(s, a, b) == SubSeq(s, a + 1, b)

\* ------------------------------------------------------------------------
\* Tokenizer: WORD_RE.finditer(line)
\* ------------------------------------------------------------------------
RECURSIVE MatchEnd(_, _)
\* the end offset of the maximal run of word characters that covers offset p
MatchEnd(line, p) ==
    IF p < Len(line) /\ IsWordChar(line[p + 1]) THEN MatchEnd(line, p + 1) ELSE p

RECURSIVE FindIter(_, _)
\* the matches of [A-Za-z][A-Za-z0-9'-]* from offset p on, left to right,
\* each as [start, end)
FindIter(line, p) ==
    IF p >= Len(line) THEN << >>
    ELSE IF IsAlpha(line[p + 1])
         THEN LET e == MatchEnd(line, p + 1)
              IN  <<[start |-> p, end |-> e]>> \o FindIter(line, e)
         ELSE FindIter(line, p + 1)

Tokenize(line) == FindIter(line, 0)

\* m.group(0)
Group0(line, tok) == Slice(line, tok.start, tok.end)

\* _is_title_like(word): first letter uppercase, not ALL CAPS
IsTitleLike(w) == Len(w) > 0 /\ IsUpperChar(w[1]) /\ ~IsUpperStr(w)

RECURSIVE RStrip(_)
\* w.rstrip(".,'")
RStrip(w) ==
    IF Len(w) > 0 /\ w[Len(w)] \in {".", ",", "'"}
    THEN RStrip(SubSeq(w, 1, Len(w) - 1))
    ELSE w

\* w.rstrip(".,'").replace("’", "")
Base(w) == SelectSeq(RStrip(w), LAMBDA c : c # RSQuo)

\* ------------------------------------------------------------------------
\* Fuzzy matcher: rapidfuzz fuzz.ratio and process.extractOne
\* ------------------------------------------------------------------------
\* the greatest element of a non-empty set of numbers
MaxOf(S) == CHOOSE x \in S : \A y \in S : y <= x

\* one row of the longest-common-subsequence table: prev is the row of the
\* previous character of a, c the current character of a.  Cell j (kept at
\* index j + 1) is prev[j - 1] + 1 when c = b[j], and the greater of prev[j]
\* and cell j - 1 otherwise; a row never decreases and grows by at most one
\* per cell, so cell j is the greatest of prev[j] and of prev[q - 1] + 1 for
\* the q <= j with b[q] = c
LcsRow(prev, c, b) ==
    SubSeq([j \in 1..(Len(b) + 1) |->
               MaxOf({prev[j]} \cup {prev[q] + 1 : q \in {q \in 1..(j - 1) : b[q] = c}})],
           1, Len(b) + 1)

RECURSIVE LcsTable(_, _, _, _, _)
\* the row of the table after a[lo..hi], prev being the row before a[lo];
\* the rows of the first half are computed before those of the second
LcsTable(a, b, lo, hi, prev) ==
    IF lo > hi THEN prev
    ELSE IF lo = hi THEN LcsRow(prev, a[lo], b)
    ELSE LET mid  == (lo + hi) \div 2
             left == LcsTable(a, b, lo, mid, prev)
         IN  IF Len(left) = Len(b) + 1 THEN LcsTable(a, b, mid + 1, hi, left) ELSE left

\* length of the longest common subsequence of a and b (case-sensitive)
Lcs(a, b) == LcsTable(a, b, 1, Len(a), [j \in 1..(Len(b) + 1) |-> 0])[Len(b) + 1]

\* fuzz.ratio(a, b) = 100 * (1 - indel/(len(a)+len(b))) = 100 * 2*lcs/(len(a)+len(b)),
\* kept exact as the fraction 100 * num/den (two empty strings score 100)
Ratio(a, b) ==
    IF Len(a) + Len(b) = 0 THEN [num |-> 1, den |-> 1]
    ELSE [num |-> 2 * Lcs(a, b), den |-> Len(a) + Len(b)]

\* score < threshold
ScoreBelow(sc, threshold) == 100 * sc.num < threshold * sc.den

\* a scan that keeps the last of the choices sharing the greatest score
ScoreAtLeast(s1, s2) == s1.num * s2.den >= s2.num * s1.den

ScoreGreater(s1, s2) == s1.num * s2.den > s2.num * s1.den

\* the score of the query against every choice, in the order of the choices
Scores(query, choices) ==
    SubSeq([k \in 1..Len(choices) |-> Ratio(query, choices[k])], 1, Len(choices))

RECURSIVE ExtractBest(_, _, _)
\* the scan of process.extractOne over the choices k, k + 1, ...: best is the
\* index of the first choice with the greatest score so far (0: none yet)
ExtractBest(scores, k, best) ==
    IF k > Len(scores) THEN best
    ELSE IF best = 0 \/ ScoreGreater(scores[k], scores[best])
         THEN ExtractBest(scores, k + 1, k)
         ELSE ExtractBest(scores, k + 1, best)

\* process.extractOne(query, choices, scorer=fuzz.ratio): 0 when there is no
\* choice, else the index of the best one
ExtractOne(query, choices) == ExtractBest(Scores(query, choices), 1, 0)

\* the (None, 0) result
NoMatch == [found |-> FALSE, best |-> << >>, score |-> [num |-> 0, den |-> 1]]

\* threshold of best_unigram_match when the caller gives none
DefaultThreshold == 80

\* threshold of best_bigram_match when the caller gives none
BigramDefaultThreshold == 80

\* MetaPokemon.best_unigram_match(token, threshold)
BestUnigramMatch(names, token, threshold) ==
    IF Len(names) = 0 THEN NoMatch
    ELSE LET k  == ExtractOne(token, names)
             sc == Ratio(token, names[k])
         IN  IF ScoreBelow(sc, threshold)
             THEN [found |-> FALSE, best |-> << >>, score |-> sc]
             ELSE [found |-> TRUE, best |-> names[k], score |-> sc]

\* MetaPokemon.best_bigram_match(join_token, threshold)
BestBigramMatch(names, join_token, threshold) ==
    IF Len(names) = 0 THEN NoMatch
    ELSE LET k  == ExtractOne(join_token, names)
             sc == Ratio(join_token, names[k])
         IN  IF ScoreBelow(sc, threshold)
             THEN [found |-> FALSE, best |-> << >>, score |-> sc]
             ELSE [found |-> TRUE, best |-> names[k], score |-> sc]

\* ------------------------------------------------------------------------
\* The fixed do-not-touch set
\* ------------------------------------------------------------------------
DO_NOT_FIX_UNIGRAMS == {
    <<"D","a","n","c","e">>,
    <<"P","u","n","c","h">>,
    <<"S","l","i","d","e">>,
    <<"R","o","c","k">>,
    <<"B","e","a","m">>,
    <<"W","a","v","e">>,
    <<"B","l","a","s","t">>,
    <<"K","i","c","k">>,
    <<"B","a","l","l">>,
    <<"T","h","r","o","w">>,
    <<"S","t","o","r","m">>,
    <<"W","i","n","d">>,
    <<"S","p","i","n">>,
    <<"H","i","t">>,
    <<"T","h","u","n","d","e","r">>,
    <<"T","r","i","c","k">>,
    <<"R","o","o","m">>,
    <<"D","r","a","g","o","n">>,
    <<"D","r","a","c","o">>,
    <<"G","r","a","s","s">>,
    <<"F","i","r","e">> }

\* ------------------------------------------------------------------------
\* Reference sources and MetaPokemon.__init__
\* ------------------------------------------------------------------------
\* A reference source is what json.load gives for a path: kind "object" is a
\* JSON object (hasPokemon: it has a "pokemon" key, whose list is pokemon),
\* kind "array" a JSON document that is not an object.  An item of the list
\* is a JSON object that may lack "en" (hasEn) or hold an empty one.
\* NoPath is whitelist_json_path = None.
NoPath == [kind |-> "none", hasPokemon |-> FALSE, pokemon |-> << >>]

Item(name) == [hasEn |-> TRUE, en |-> name]

\* an entry with no "en" field
Nameless == [hasEn |-> FALSE, en |-> << >>]

\* meta_data.get("pokemon", [])
PokemonList(src) == IF src.hasPokemon THEN src.pokemon ELSE << >>

\* a test that passes over the entries with no "en" key only
FalsyMissingOnly(item) == ~item.hasEn

\* item.get("en") is falsy: the key is missing or the name is empty
Falsy(item) == ~item.hasEn \/ Len(item.en) = 0

\* the items the loading loop keeps (`if not en_name: continue`), in order
NamedItems(src) == SelectSeq(PokemonList(src), LAMBDA item : ~Falsy(item))

\* self.meta_names after the loop of lines 55-59
LoadNames(src) == [k \in DOMAIN NamedItems(src) |-> NamedItems(src)[k].en]

\* self.meta_map after the loop of lines 55-60: lowercased name -> item, a
\* later item overwriting an earlier one with the same key
LoadMap(src) ==
    LET items == NamedItems(src)
        keys  == {Lower(items[k].en) : k \in DOMAIN items}
        last(key) == CHOOSE k \in DOMAIN items :
                        /\ Lower(items[k].en) = key
                        /\ \A j \in DOMAIN items : Lower(items[j].en) = key => j <= k
    IN  [key \in keys |-> items[last(key)]]

\* the whitelist set built by lines 72-77
LoadWhitelist(src) == {Lower(NamedItems(src)[k].en) : k \in DOMAIN NamedItems(src)}

\* a loader that takes any document for an object
LoadNeverRaises(src) == FALSE

\* json.load gave something without .get (line 55 / line 73 raises)
LoadRaises(src) == src.kind = "array"

\* ------------------------------------------------------------------------
\* fix_line_with_meta: the guards of the two passes
\* ------------------------------------------------------------------------
\* thresholds the two passes hand to the matcher
BigramThreshold == 90

UnigramThreshold == 75

\* length guards of the two passes
BigramMaxLenDiff == 3

UnigramMaxLenDiff == 2

\* len(w) < 4
UnigramMinLen == 4

\* a unigram matcher whose default is the threshold pass 2 passes
BestUnigramMatchDefaultOfPass(names, token) ==
    BestUnigramMatch(names, token, UnigramThreshold)

\* meta.best_unigram_match(token), the threshold left to its default
BestUnigramMatchDefault(names, token) ==
    BestUnigramMatch(names, token, DefaultThreshold)

\* meta.best_bigram_match(join_token), the threshold left to its default
BestBigramMatchDefault(names, join_token) ==
    BestBigramMatch(names, join_token, BigramDefaultThreshold)

Skip(why) == [kind |-> "skip", text |-> << >>, why |-> why]

Accept(best) == [kind |-> "accept", text |-> best, why |-> "accept"]

\* an exception leaves fix_line_with_meta
Raise(why) == [kind |-> "raise", text |-> << >>, why |-> why]

\* any(ch in between for ch in ".?!;\n")
HasBoundary(between) == \E k \in DOMAIN between : between[k] \in {".", "?", "!", ";", "\n"}

\* BigramGuards without `if not best: continue`: best[0] on None
BigramGuardsNoNoneCheck(join_candidate, m) ==
    IF ~m.found THEN Raise("TypeError")
    ELSE IF Len(m.best) = 0 \/ Len(join_candidate) = 0 THEN Raise("IndexError")
    ELSE IF LowerChar(m.best[1]) # LowerChar(join_candidate[1]) THEN Skip("firstchar")
    ELSE IF Abs(Len(m.best) - Len(join_candidate)) > BigramMaxLenDiff THEN Skip("length")
    ELSE Accept(m.best)

\* lines 189-196, on the result m of best_bigram_match
BigramGuards(join_candidate, m) ==
    IF ~m.found \/ Len(m.best) = 0 THEN Skip("nomatch")
    ELSE IF Len(join_candidate) = 0 THEN Raise("IndexError")
    ELSE IF LowerChar(m.best[1]) # LowerChar(join_candidate[1]) THEN Skip("firstchar")
    ELSE IF Abs(Len(m.best) - Len(join_candidate)) > BigramMaxLenDiff THEN Skip("length")
    ELSE Accept(m.best)

\* BigramDecision without the title-case guard of lines 169-170
BigramDecisionNoTitle(line, toks, i, names, whitelist) ==
    LET w1 == Group0(line, toks[i + 1])
        w2 == Group0(line, toks[i + 2])
        base1 == Base(w1)
        base2 == Base(w2)
        between == Slice(line, toks[i + 1].end, toks[i + 2].start)
    IN  IF Lower(base1) \in whitelist THEN Skip("whitelist")
        ELSE IF Lower(base2) \in whitelist THEN Skip("whitelist")
        ELSE IF HasBoundary(between) THEN Skip("boundary")
        ELSE BigramGuards(base1 \o base2,
                          BestBigramMatch(names, base1 \o base2, BigramThreshold))

\* BigramDecision without the whitelist guard of lines 176-179
BigramDecisionNoWhitelist(line, toks, i, names, whitelist) ==
    LET w1 == Group0(line, toks[i + 1])
        w2 == Group0(line, toks[i + 2])
        base1 == Base(w1)
        base2 == Base(w2)
        between == Slice(line, toks[i + 1].end, toks[i + 2].start)
    IN  IF ~(IsTitleLike(w1) /\ IsTitleLike(w2)) THEN Skip("title")
        ELSE IF HasBoundary(between) THEN Skip("boundary")
        ELSE BigramGuards(base1 \o base2,
                          BestBigramMatch(names, base1 \o base2, BigramThreshold))

\* BigramDecision without the sentence-boundary guard of lines 182-184
BigramDecisionNoBoundary(line, toks, i, names, whitelist) ==
    LET w1 == Group0(line, toks[i + 1])
        w2 == Group0(line, toks[i + 2])
        base1 == Base(w1)
        base2 == Base(w2)
    IN  IF ~(IsTitleLike(w1) /\ IsTitleLike(w2)) THEN Skip("title")
        ELSE IF Lower(base1) \in whitelist THEN Skip("whitelist")
        ELSE IF Lower(base2) \in whitelist THEN Skip("whitelist")
        ELSE BigramGuards(base1 \o base2,
                          BestBigramMatch(names, base1 \o base2, BigramThreshold))

\* lines 166-196: what pass 1 decides for the pair (i, i+1), i a 0-based
\* token index not in `used`
BigramDecision(line, toks, i, names, whitelist) ==
    LET w1 == Group0(line, toks[i + 1])
        w2 == Group0(line, toks[i + 2])
        base1 == Base(w1)
        base2 == Base(w2)
        between == Slice(line, toks[i + 1].end, toks[i + 2].start)
    IN  IF ~(IsTitleLike(w1) /\ IsTitleLike(w2)) THEN Skip("title")
        ELSE IF Lower(base1) \in whitelist THEN Skip("whitelist")
        ELSE IF Lower(base2) \in whitelist THEN Skip("whitelist")
        ELSE IF HasBoundary(between) THEN Skip("boundary")
        ELSE BigramGuards(base1 \o base2,
                          BestBigramMatch(names, base1 \o base2, BigramThreshold))

RECURSIVE Split(_, _)
\* base.split(sep)
Split(s, sep) ==
    IF \E k \in DOMAIN s : s[k] = sep
    THEN LET k == CHOOSE k \in DOMAIN s : s[k] = sep /\ \A j \in 1..(k - 1) : s[j] # sep
         IN  <<SubSeq(s, 1, k - 1)>> \o Split(SubSeq(s, k + 1, Len(s)), sep)
    ELSE <<s>>

\* lines 224-230: every branch of the hyphen case leaves the token alone
HyphenDecision(base, metaKeys) ==
    IF \E part \in Range(Split(base, "-")) : part \in DO_NOT_FIX_UNIGRAMS
    THEN Skip("hyphen-donotfix")
    ELSE IF Lower(base) \notin metaKeys THEN Skip("hyphen-unknown")
    ELSE Skip("hyphen-known")

\* UnigramGuards without the first-letter guard of lines 242-243
UnigramGuardsNoFirstChar(base, m) ==
    IF ~m.found \/ Len(m.best) = 0 \/ m.best = base THEN Skip("nomatch")
    ELSE IF Len(base) = 0 THEN Raise("IndexError")
    ELSE IF Abs(Len(m.best) - Len(base)) > UnigramMaxLenDiff THEN Skip("length")
    ELSE Accept(m.best)

\* lines 240-245, on the result m of best_unigram_match
UnigramGuards(base, m) ==
    IF ~m.found \/ Len(m.best) = 0 \/ m.best = base THEN Skip("nomatch")
    ELSE IF Len(base) = 0 THEN Raise("IndexError")
    ELSE IF LowerChar(m.best[1]) # LowerChar(base[1]) THEN Skip("firstchar")
    ELSE IF Abs(Len(m.best) - Len(base)) > UnigramMaxLenDiff THEN Skip("length")
    ELSE Accept(m.best)

\* UnigramDecision without the whitelist guard of lines 220-221
UnigramDecisionNoWhitelist(w, names, metaKeys, whitelist) ==
    LET base == Base(w)
    IN  IF Len(w) < UnigramMinLen THEN Skip("short")
        ELSE IF ~IsTitleLike(w) THEN Skip("title")
        ELSE IF "-" \in Range(base) THEN HyphenDecision(base, metaKeys)
        ELSE IF base \in DO_NOT_FIX_UNIGRAMS THEN Skip("donotfix")
        ELSE IF Lower(base) \in metaKeys THEN Skip("meta")
        ELSE UnigramGuards(base, BestUnigramMatch(names, base, UnigramThreshold))

\* UnigramDecision without the hyphen branch of lines 224-230
UnigramDecisionNoHyphen(w, names, metaKeys, whitelist) ==
    LET base == Base(w)
    IN  IF Len(w) < UnigramMinLen THEN Skip("short")
        ELSE IF ~IsTitleLike(w) THEN Skip("title")
        ELSE IF Lower(base) \in whitelist THEN Skip("whitelist")
        ELSE IF base \in DO_NOT_FIX_UNIGRAMS THEN Skip("donotfix")
        ELSE IF Lower(base) \in metaKeys THEN Skip("meta")
        ELSE UnigramGuards(base, BestUnigramMatch(names, base, UnigramThreshold))

\* UnigramDecision without the do-not-touch guard of lines 232-233
UnigramDecisionNoDoNotFix(w, names, metaKeys, whitelist) ==
    LET base == Base(w)
    IN  IF Len(w) < UnigramMinLen THEN Skip("short")
        ELSE IF ~IsTitleLike(w) THEN Skip("title")
        ELSE IF Lower(base) \in whitelist THEN Skip("whitelist")
        ELSE IF "-" \in Range(base) THEN HyphenDecision(base, metaKeys)
        ELSE IF Lower(base) \in metaKeys THEN Skip("meta")
        ELSE UnigramGuards(base, BestUnigramMatch(names, base, UnigramThreshold))

\* lines 212-245: what pass 2 decides for the word w, a token not in `occupied`
UnigramDecision(w, names, metaKeys, whitelist) ==
    LET base == Base(w)
    IN  IF Len(w) < UnigramMinLen THEN Skip("short")
        ELSE IF ~IsTitleLike(w) THEN Skip("title")
        ELSE IF Lower(base) \in whitelist THEN Skip("whitelist")
        ELSE IF "-" \in Range(base) THEN HyphenDecision(base, metaKeys)
        ELSE IF base \in DO_NOT_FIX_UNIGRAMS THEN Skip("donotfix")
        ELSE IF Lower(base) \in metaKeys THEN Skip("meta")
        ELSE UnigramGuards(base, BestUnigramMatch(names, base, UnigramThreshold))

\* occupied.update(range(s + 1, e)): the first token of each range left out
OccupiedButFirst(repls) ==
    UNION {(r[1] + 1)..(r[2] - 1) : r \in Range(repls)}

\* lines 205-207: the token indices covered by the recorded replacements
Occupied(repls) ==
    UNION {r[1]..(r[2] - 1) : r \in Range(repls)}

\* ------------------------------------------------------------------------
\* fix_line_with_meta: the span rewriter (lines 255-267)
\* ------------------------------------------------------------------------
\* lines 256-260: token index ranges to character ranges
CharRepls(toks, repls) ==
    [k \in DOMAIN repls |->
        <<toks[repls[k][1] + 1].start, toks[repls[k][2]].end, repls[k][3]>>]

RECURSIVE InsertDesc(_, _)
\* r put into the list sorted by start descending, after the entries whose
\* start is at least r's (list.sort is stable)
InsertDesc(sorted, r) ==
    IF Len(sorted) = 0 THEN <<r>>
    ELSE IF Head(sorted)[1] >= r[1]
         THEN <<Head(sorted)>> \o InsertDesc(Tail(sorted), r)
         ELSE <<r>> \o sorted

\* the character replacements left in the order they were recorded
SortDescNoSort(rs) == rs

RECURSIVE SortDesc(_)
\* char_repls.sort(key=lambda x: x[0], reverse=True)
SortDesc(rs) ==
    IF Len(rs) = 0 THEN << >>
    ELSE InsertDesc(SortDesc(SubSeq(rs, 1, Len(rs) - 1)), rs[Len(rs)])

\* Python's fixed[:a] and fixed[b:], which clamp an offset past the end
Prefix(s, a) == SubSeq(s, 1, IF a > Len(s) THEN Len(s) ELSE a)

Suffix(s, b) == SubSeq(s, (IF b > Len(s) THEN Len(s) ELSE b) + 1, Len(s))

RECURSIVE Substitute(_, _)
\* the loop of lines 265-267 over the character replacements rs, in order
Substitute(fixed, rs) ==
    IF Len(rs) = 0 THEN fixed
    ELSE Substitute(Prefix(fixed, Head(rs)[1]) \o Head(rs)[3] \o Suffix(fixed, Head(rs)[2]),
                    Tail(rs))

\* lines 250-269
ApplyReplacements(line, toks, repls) ==
    IF Len(repls) = 0 THEN line
    ELSE Substitute(line, SortDesc(CharRepls(toks, repls)))

\* ------------------------------------------------------------------------
\* Inputs: reference sources and lines
\* ------------------------------------------------------------------------
Tyranitar == <<"T","y","r","a","n","i","t","a","r">>

Rotom == <<"R","o","t","o","m">>

RotomWash == <<"R","o","t","o","m","-","W","a","s","h">>

Hitmonchan == <<"H","i","t","m","o","n","c","h","a","n">>

Suicune == <<"S","u","i","c","u","n","e">>

Metagross == <<"M","e","t","a","g","r","o","s","s">>

Tyrantrum == <<"T","y","r","a","n","t","r","u","m">>

Weavile == <<"W","e","a","v","i","l","e">>

Garchomp == <<"G","a","r","c","h","o","m","p">>

MrMime == <<"M","r","."," ","M","i","m","e">>

Mimi == <<"M","i","m","i">>

Latias == <<"L","a","t","i","a","s">>

Latios == <<"L","a","t","i","o","s">>

\* the meta list (--dict): OU names, with one entry lacking "en" and one whose
\* "en" is empty
SrcOU == [kind |-> "object", hasPokemon |-> TRUE,
          pokemon |-> <<Item(Tyranitar), Nameless, Item(Rotom), Item(RotomWash),
                        Item(<< >>), Item(Hitmonchan), Item(Suicune), Item(Metagross)>>]

\* a full list (--full) that protects other names but not the meta names
SrcFull == [kind |-> "object", hasPokemon |-> TRUE,
            pokemon |-> <<Item(Metagross), Item(Tyrantrum), Nameless,
                          Item(Weavile), Item(Garchomp)>>]

\* a meta list with a name of two words
SrcMime == [kind |-> "object", hasPokemon |-> TRUE,
            pokemon |-> <<Item(MrMime), Item(Mimi)>>]

\* a meta list with two names that differ in one letter
SrcLati == [kind |-> "object", hasPokemon |-> TRUE,
            pokemon |-> <<Item(Latias), Item(Latios)>>]

\* a JSON object with no "pokemon" key
SrcNoPokemon == [kind |-> "object", hasPokemon |-> FALSE, pokemon |-> << >>]

\* a JSON document that is a list, not an object
SrcArray == [kind |-> "array", hasPokemon |-> FALSE, pokemon |-> << >>]

\* the (meta_json_path, whitelist_json_path) pairs MetaPokemon is built from
SourcePairs == { <<SrcOU, NoPath>>, <<SrcOU, SrcFull>>, <<SrcMime, NoPath>>,
                 <<SrcNoPokemon, NoPath>>, <<SrcArray, NoPath>>, <<SrcOU, SrcArray>>,
                 <<SrcLati, NoPath>> }

Rotem == <<"R","o","t","e","m">>

Wash == <<"W","a","s","h">>

Hit == <<"H","i","t">>

Monchan == <<"M","o","n","c","h","a","n">>

\* the words generated lines are made of
CoreWords == {Rotem, Wash, Hit, Monchan}

\* the text between the words of a generated line: a space, or the end of a
\* sentence
Separators == {<<" ">>, <<".", " ">>}

\* most words in a generated line
MaxTokens == 3

RECURSIVE Join(_, _, _)
\* ws[k] sep ws[k+1] sep ... up to the last word
Join(ws, sep, k) ==
    IF k = Len(ws) THEN ws[k]
    ELSE ws[k] \o sep \o Join(ws, sep, k + 1)

GeneratedLines ==
    UNION { { Join(ws, sep, 1) : ws \in [1..k -> CoreWords], sep \in Separators }
            : k \in 1..MaxTokens }

ScenarioA == <<"T","e","r","r","a","n","i","t","a","r"," ","u","s","e","d"," ","S","t","o","n","e"," ","E","d","g","e">>

ScenarioB == <<"S","w","e","e","t"," ","C","o","o","n"," ","s","u","r","f","e","d">>

ScenarioC == <<"R","o","c","k"," ","S","l","i","d","e"," ","h","i","t"," ","h","a","r","d">>

ScenarioD == <<"M","e","t","a","g","r","o","s","s"," ","i","s"," ","s","t","r","o","n","g">>

ScenarioE == <<"W","e","a","v","i","l","e","."," ","B","u","t"," ","G","a","r","c","h","o","m","p">>

EmptyLine == << >>

NoTokenLine == <<".",".","."," ","9">>

ApostropheLine == <<"A","'","'"," ","b","-","'"," ","R","o","t","e","m","'","'">>

HyphenLine == <<"R","o","t","o","m","-"," ","W","a","s","h">>

HyphenThenUnigramLine == <<"R","o","t","o","m","-"," ","W","a","s","h"," ","R","o","t","e","m">>

TrickRoomLine == <<"T","r","i","c","k"," ","R","o","o","m">>

TyrantrumLine == <<"R","o","t","o","m","-"," ","W","a","s","h"," ","T","y","r","a","n","t","r","u","m">>

BoundaryThenBigramLine == <<"R","o","t","e","m","."," ","H","i","t"," ","M","o","n","c","h","a","n">>

BigramThenBoundaryLine == <<"H","i","t"," ","M","o","n","c","h","a","n","."," ","R","o","t","e","m">>

HyphenUnigramLine == <<"W","a","s","h"," ","R","o","t","o","m","-">>

MrMimeLine == <<"M","r","M","i","m","e"," ","h","e","r","e">>

BigramOverUnigramLine == <<"R","o","t","o","m","s"," ","W","a","s","h"," ","R","o","t","e","m">>

\* a misheard name as close to one meta name as to another
LatiusLine == <<"L","a","t","i","u","s">>

\* a token close to a meta name but three characters shorter
UnigramLengthLine == <<"T","y","r","a","n","i">>

\* a token close to a meta name but for its first letter
UnigramFirstCharLine == <<"M","o","t","o","m">>

\* two tokens whose join is close to a meta name but for its first letter
BigramFirstCharLine == <<"M","o","t","o","m","-"," ","W","a","s","h">>

\* two lower-case words whose join is close to a meta name
BigramNoTitleLine == <<"h","i","t"," ","m","o","n","c","h","a","n">>

ScenarioLines == {ScenarioA, ScenarioB, ScenarioC, ScenarioD, ScenarioE,
                  EmptyLine, NoTokenLine, ApostropheLine,
                  HyphenLine, HyphenThenUnigramLine, TrickRoomLine, TyrantrumLine,
                  BoundaryThenBigramLine, BigramThenBoundaryLine,
                  HyphenUnigramLine, MrMimeLine, BigramOverUnigramLine, LatiusLine,
                  UnigramLengthLine, UnigramFirstCharLine, BigramFirstCharLine,
                  BigramNoTitleLine}

Lines == GeneratedLines \cup ScenarioLines

BlankLine == <<" ", " ">>

\* the texts of the events of a subtitle file
FileLines == {ScenarioA, HyphenLine, BoundaryThenBigramLine, TrickRoomLine, NoTokenLine,
              BlankLine}

\* the number of events of a subtitle file
MaxCalls == 3

\* a word of a name of two words
Mime == <<"M","i","m","e">>

\* the bases of the tokens of a line, in order
TokenBases(l) ==
    LET t == Tokenize(l)
    IN  SubSeq([k \in DOMAIN t |-> Base(Group0(l, t[k]))], 1, Len(t))

\* the strings the matchers are asked about: the bases of the tokens of the
\* lines, the joins of the bases of two tokens that follow each other, and a
\* word of a name
Queries ==
    UNION { Range(TokenBases(l))
              \cup {TokenBases(l)[k] \o TokenBases(l)[k + 1] : k \in 1..(Len(TokenBases(l)) - 1)}
            : l \in Lines } \cup {Mime}

\* the thresholds a caller gives
ExplicitThresholds == {UnigramThreshold, BigramThreshold}

\* no matcher was called directly
NoCall == [matcher |-> "none", query |-> << >>, explicit |-> FALSE, threshold |-> 0,
           result |-> NoMatch]

\* ------------------------------------------------------------------------
\* State
\* ------------------------------------------------------------------------
VARIABLES
    pc,                     \* where the program is
    metaSrc, wlSrc,         \* what the two paths given to MetaPokemon hold
    meta_names, meta_map, whitelist_names_lower,   \* the MetaPokemon object
    line, tokens,           \* fix_line_with_meta: its argument and its matches
    replacements, used, occupied, i,               \* its locals
    fixed,                  \* its return value
    raised,                 \* the exception that left the program, or "none"
    call,                   \* history: 0 before the first call, then 1, 2
    input,                  \* history: the line of the first call
    subs,                   \* history: the <<text, fixed>> of the calls that returned
    matched,                \* a direct call of a matcher: its arguments and result
    trace                   \* history: the decisions of this call, in order

vars == <<pc, metaSrc, wlSrc, meta_names, meta_map, whitelist_names_lower, line,
          tokens, replacements, used, occupied, i, fixed, raised, call, input, subs,
          matched, trace>>

registry == <<meta_names, meta_map, whitelist_names_lower>>

sources == <<metaSrc, wlSrc>>

locals == <<line, tokens, replacements, used, occupied, i, fixed, call, input, subs,
            matched, trace>>

\* words = [m.group(0) for m in tokens]
words == [k \in DOMAIN tokens |-> Group0(line, tokens[k])]

\* n = len(words)
n == Len(tokens)

Init ==
    /\ pc = "new"
    /\ \E sp \in SourcePairs : metaSrc = sp[1] /\ wlSrc = sp[2]
    /\ meta_names = << >>
    /\ meta_map = << >>
    /\ whitelist_names_lower = {}
    /\ line = << >>
    /\ tokens = << >>
    /\ replacements = << >>
    /\ used = {}
    /\ occupied = {}
    /\ i = 0
    /\ fixed = << >>
    /\ raised = "none"
    /\ call = 0
    /\ input = << >>
    /\ subs = {}
    /\ matched = NoCall
    /\ trace = << >>

\* MetaPokemon.__init__(meta_json_path, whitelist_json_path)
Construct ==
    /\ pc = "new"
    /\ IF LoadRaises(metaSrc) \/ (wlSrc # NoPath /\ LoadRaises(wlSrc))
       THEN /\ pc' = "raised"
            /\ raised' = "AttributeError"
            /\ UNCHANGED registry
       ELSE /\ pc' = "ready"
            /\ meta_names' = LoadNames(metaSrc)
            /\ meta_map' = LoadMap(metaSrc)
            /\ whitelist_names_lower' =
                  IF wlSrc = NoPath THEN DOMAIN LoadMap(metaSrc) ELSE LoadWhitelist(wlSrc)
            /\ UNCHANGED raised
    /\ UNCHANGED <<sources, locals>>

\* the set of the previous call, kept
KeptUsed == used

\* used = set()
FreshUsed == {}

\* lines 150-161 of a call fix_line_with_meta(l, meta), the c-th of the run
Enter(l, c) ==
    /\ line' = l
    /\ tokens' = Tokenize(l)
    /\ replacements' = << >>
    /\ used' = FreshUsed
    /\ occupied' = {}
    /\ i' = 0
    /\ trace' = << >>
    /\ call' = c
    /\ IF Len(Tokenize(l)) = 0
       THEN pc' = "returned" /\ fixed' = l
       ELSE pc' = "pass1" /\ UNCHANGED fixed
    /\ UNCHANGED <<sources, registry, raised, matched>>

\* fix_line_with_meta(l, meta) on a line of the input
Call ==
    /\ pc = "ready"
    /\ call = 0
    /\ \E l \in Lines : Enter(l, 1) /\ input' = l
    /\ UNCHANGED subs

\* fix_line_with_meta on the line the first call returned
CallAgain ==
    /\ pc = "returned"
    /\ call = 1
    /\ Enter(fixed, 2)
    /\ UNCHANGED <<input, subs>>

\* used.update({i}): the second token of the bigram left unmarked
MarkUsedFirstOnly(u, k) == u \cup {k}

\* used.update({i, i + 1})
MarkUsed(u, k) == u \cup {k, k + 1}

\* one iteration of the loop of lines 162-200
Pass1Step ==
    /\ pc = "pass1"
    /\ i < n - 1
    /\ IF i \in used
       THEN /\ i' = i + 1
            /\ UNCHANGED <<pc, replacements, used, raised, trace>>
       ELSE LET d == BigramDecision(line, tokens, i, meta_names, whitelist_names_lower)
            IN  /\ trace' = Append(trace, [pass |-> 1, i |-> i, why |-> d.why])
                /\ IF d.kind = "raise"
                   THEN /\ pc' = "raised"
                        /\ raised' = d.why
                        /\ UNCHANGED <<replacements, used, i>>
                   ELSE /\ i' = i + 1
                        /\ IF d.kind = "accept"
                           THEN /\ replacements' = Append(replacements, <<i, i + 2, d.text>>)
                                /\ used' = MarkUsed(used, i)
                           ELSE UNCHANGED <<replacements, used>>
                        /\ UNCHANGED <<pc, raised>>
    /\ UNCHANGED <<sources, registry, line, tokens, occupied, fixed, call, input, subs,
                   matched>>

\* lines 205-207, after the last iteration of pass 1
MarkOccupied ==
    /\ pc = "pass1"
    /\ i >= n - 1
    /\ occupied' = Occupied(replacements)
    /\ i' = 0
    /\ pc' = "pass2"
    /\ UNCHANGED <<sources, registry, line, tokens, replacements, used, fixed, raised,
                   call, input, subs, matched, trace>>

\* one iteration of the loop of lines 209-247
Pass2Step ==
    /\ pc = "pass2"
    /\ i < n
    /\ IF i \in occupied
       THEN /\ i' = i + 1
            /\ UNCHANGED <<pc, replacements, raised, trace>>
       ELSE LET d == UnigramDecision(Group0(line, tokens[i + 1]), meta_names, DOMAIN meta_map,
                                     whitelist_names_lower)
            IN  /\ trace' = Append(trace, [pass |-> 2, i |-> i, why |-> d.why])
                /\ IF d.kind = "raise"
                   THEN /\ pc' = "raised"
                        /\ raised' = d.why
                        /\ UNCHANGED <<replacements, i>>
                   ELSE /\ i' = i + 1
                        /\ replacements' = IF d.kind = "accept"
                                           THEN Append(replacements, <<i, i + 1, d.text>>)
                                           ELSE replacements
                        /\ UNCHANGED <<pc, raised>>
    /\ UNCHANGED <<sources, registry, line, tokens, used, occupied, fixed, call, input,
                   subs, matched>>

\* lines 249-269, after the last iteration of pass 2
Apply ==
    /\ pc = "pass2"
    /\ i >= n
    /\ fixed' = ApplyReplacements(line, tokens, replacements)
    /\ pc' = "returned"
    /\ UNCHANGED <<sources, registry, line, tokens, replacements, used, occupied, i,
                   raised, call, input, subs, matched, trace>>

Next ==
    \/ Construct
    \/ Call
    \/ CallAgain
    \/ Pass1Step
    \/ MarkOccupied
    \/ Pass2Step
    \/ Apply

Spec == Init /\ [][Next]_vars

\* not text.strip()
IsBlank(text) == \A k \in DOMAIN text : text[k] \in {" ", "\n", "\t"}

\* one iteration of the loop of normalize_file on an event whose text is l:
\* a blank text is passed over, any other is handed to fix_line_with_meta
\* (the text and the result of the call before it are then in subs)
NextEvent ==
    /\ pc \in {"ready", "returned"}
    /\ call < MaxCalls
    /\ subs' = IF pc = "returned" THEN subs \cup {<<line, fixed>>} ELSE subs
    /\ \E l \in FileLines :
          IF IsBlank(l)
          THEN /\ call' = call + 1
               /\ UNCHANGED <<pc, sources, registry, line, tokens, replacements, used,
                              occupied, i, fixed, raised, input, matched, trace>>
          ELSE /\ Enter(l, call + 1)
               /\ input' = IF call = 0 THEN l ELSE input

\* normalize_file: the registry is built, then the events are rewritten one
\* after the other
NextFile ==
    \/ Construct
    \/ NextEvent
    \/ Pass1Step
    \/ MarkOccupied
    \/ Pass2Step
    \/ Apply

SpecFile == Init /\ [][NextFile]_vars

\* meta.best_unigram_match(q, threshold=th), or meta.best_unigram_match(q) with
\* the threshold left to its default
UnigramCall ==
    /\ pc = "ready"
    /\ matched = NoCall
    /\ \E q \in Queries :
          \/ \E th \in ExplicitThresholds :
                matched' = [matcher |-> "unigram", query |-> q, explicit |-> TRUE,
                            threshold |-> th,
                            result |-> BestUnigramMatch(meta_names, q, th)]
          \/ matched' = [matcher |-> "unigram", query |-> q, explicit |-> FALSE,
                         threshold |-> 0,
                         result |-> BestUnigramMatchDefault(meta_names, q)]
    /\ UNCHANGED <<pc, sources, registry, line, tokens, replacements, used, occupied, i,
                   fixed, raised, call, input, subs, trace>>

\* meta.best_bigram_match(q, threshold=th), or meta.best_bigram_match(q) with
\* the threshold left to its default
BigramCall ==
    /\ pc = "ready"
    /\ matched = NoCall
    /\ \E q \in Queries :
          \/ \E th \in ExplicitThresholds :
                matched' = [matcher |-> "bigram", query |-> q, explicit |-> TRUE,
                            threshold |-> th,
                            result |-> BestBigramMatch(meta_names, q, th)]
          \/ matched' = [matcher |-> "bigram", query |-> q, explicit |-> FALSE,
                         threshold |-> 0,
                         result |-> BestBigramMatchDefault(meta_names, q)]
    /\ UNCHANGED <<pc, sources, registry, line, tokens, replacements, used, occupied, i,
                   fixed, raised, call, input, subs, trace>>

\* the registry is built, then one of its matchers is called
NextMatch ==
    \/ Construct
    \/ UnigramCall
    \/ BigramCall

SpecMatch == Init /\ [][NextMatch]_vars

\* ------------------------------------------------------------------------
\* Properties
\* ------------------------------------------------------------------------
\* the 0-based token index k is inside a recorded replacement
Covered(k) == \E r \in Range(replacements) : r[1] <= k /\ k < r[2]

\* the base of the k-th token (k = 1..n)
TokenBase(k) == Base(words[k])

\* a call has returned (with the locals of that call still in the state)
Returned == pc = "returned" /\ call >= 1

Decisions == Range(trace)

\* what the guards after the matcher make of the best match for the k-th
\* token taken alone
UnguardedUnigram(k) ==
    UnigramGuards(TokenBase(k), BestUnigramMatch(meta_names, TokenBase(k), UnigramThreshold))

\* every meta name is one token and, stripped and lowercased, in the whitelist
MetaNamesProtected ==
    \A k \in DOMAIN meta_names :
        /\ Tokenize(meta_names[k]) = <<[start |-> 0, end |-> Len(meta_names[k])]>>
        /\ Lower(Base(meta_names[k])) \in whitelist_names_lower

\* C1 as stated: normalizing the output of fix_line_with_meta again returns
\* it unchanged, whatever the registry.
C1_IdempotentAnyRegistry == (Returned /\ call = 2) => fixed = line

\* C1 amended: when every meta name is a single token whose lowercased base
\* is in the whitelist, normalizing the output of fix_line_with_meta again
\* returns it unchanged.
C1_IdempotentWhenMetaProtected ==
    (Returned /\ call = 2 /\ MetaNamesProtected) => fixed = line

\* Not enough for C1: with every meta name in the whitelist but one of them
\* ("Mr. Mime") made of two tokens, the second call rewrites a word of the
\* name the first call wrote.  TLC finds this violated.
IdempotentWhenMetaWhitelisted ==
    (/\ Returned /\ call = 2
     /\ \A k \in DOMAIN meta_names : Lower(meta_names[k]) \in whitelist_names_lower)
    => fixed = line

\* the second call ran on a line the first call changed, and its pass 1 met a
\* protected name written by the first call
C1_Witness ==
    /\ Returned /\ call = 2 /\ MetaNamesProtected
    /\ line # input
    /\ \E t \in Decisions : t.pass = 1 /\ t.why = "whitelist"

\* the sum over the replacements that end at or before token k (0-based) of
\* the change of length each makes
RECURSIVE ShiftBefore(_, _)
ShiftBefore(k, rs) ==
    IF Len(rs) = 0 THEN 0
    ELSE (IF Head(rs)[2] <= k
          THEN Len(Head(rs)[3]) - (tokens[Head(rs)[2]].end - tokens[Head(rs)[1] + 1].start)
          ELSE 0) + ShiftBefore(k, Tail(rs))

\* the k-th token's text stands in the output, at its offset moved by the
\* replacements to its left
TokenKept(k) ==
    LET d == ShiftBefore(k - 1, replacements)
    IN  /\ tokens[k].end + d <= Len(fixed)
        /\ Slice(fixed, tokens[k].start + d, tokens[k].end + d) = words[k]

\* C2: a token whose lowercased base is in the whitelist is never inside a
\* replacement span, as a unigram or as a half of a bigram, and its
\* characters stand unchanged in the output.
C2_WhitelistProtected ==
    \A k \in DOMAIN tokens :
        Lower(TokenBase(k)) \in whitelist_names_lower =>
            /\ ~Covered(k - 1)
            /\ Returned => TokenKept(k)

\* a whitelisted token the matcher alone would have replaced, kept in a line
\* where a replacement to its left changed the length
C2_Witness ==
    /\ Returned
    /\ \E k \in DOMAIN tokens :
          /\ Lower(TokenBase(k)) \in whitelist_names_lower
          /\ UnguardedUnigram(k).kind = "accept"
          /\ ShiftBefore(k - 1, replacements) # 0

\* C3 as stated: a token whose base is in DO_NOT_FIX_UNIGRAMS is never inside
\* a replacement span, of pass 2 or of an accepted bigram.
C3_DoNotFixNeverInSpan ==
    \A k \in DOMAIN tokens : TokenBase(k) \in DO_NOT_FIX_UNIGRAMS => ~Covered(k - 1)

\* C3 amended: a token whose base is in DO_NOT_FIX_UNIGRAMS is never
\* replaced by the unigram pass (pass 1 has no such guard).
C3_DoNotFixNeverUnigram ==
    \A r \in Range(replacements) :
        r[2] = r[1] + 1 => TokenBase(r[1] + 1) \notin DO_NOT_FIX_UNIGRAMS

\* pass 2 left alone a do-not-touch token that the matcher alone would have
\* replaced
C3_Witness ==
    /\ Returned
    /\ \E t \in Decisions :
          /\ t.pass = 2 /\ t.why = "donotfix"
          /\ UnguardedUnigram(t.i + 1).kind = "accept"

\* C4 as stated: a token that contains a hyphen is never inside a
\* replacement span, of pass 2 or of an accepted bigram.
C4_HyphenNeverInSpan ==
    \A k \in DOMAIN tokens : "-" \in Range(words[k]) => ~Covered(k - 1)

\* C4 amended: a token that contains a hyphen is never replaced by the
\* unigram pass (pass 1 has no such guard).
C4_HyphenNeverUnigram ==
    \A r \in Range(replacements) :
        r[2] = r[1] + 1 => "-" \notin Range(words[r[1] + 1])

\* pass 2 left alone a hyphenated token that the matcher alone would have
\* replaced
C4_Witness ==
    /\ Returned
    /\ \E t \in Decisions :
          /\ t.pass = 2
          /\ t.why \in {"hyphen-donotfix", "hyphen-unknown", "hyphen-known"}
          /\ UnguardedUnigram(t.i + 1).kind = "accept"

\* the character ranges of the recorded replacements
CharRanges == Range(CharRepls(tokens, replacements))

RECURSIVE LeftToRight(_, _, _)
\* l rebuilt from offset `cursor` on: the text up to the next range, its
\* replacement, and so on, all offsets being offsets of l
LeftToRight(l, rs, cursor) ==
    LET ahead == {r \in rs : r[1] >= cursor}
    IN  IF ahead = {} THEN Slice(l, cursor, Len(l))
        ELSE LET r == CHOOSE r \in ahead : \A q \in ahead : r[1] <= q[1]
             IN  Slice(l, cursor, r[1]) \o r[3] \o LeftToRight(l, rs, r[2])

\* C5: the output is the input with each accepted replacement's character
\* range [start of first token, end of last token) replaced by its text and
\* everything outside the ranges kept in order (the right-to-left
\* substitution equals the left-to-right construction from the original
\* offsets); the ranges do not overlap; with no replacement the input is
\* returned unchanged.
C5_SpanCorrect ==
    Returned =>
        /\ \A r \in CharRanges : 0 <= r[1] /\ r[1] < r[2] /\ r[2] <= Len(line)
        /\ \A r, q \in CharRanges : r # q => (r[2] <= q[1] \/ q[2] <= r[1])
        /\ Cardinality(CharRanges) = Len(replacements)
        /\ fixed = LeftToRight(line, CharRanges, 0)
        /\ (Len(replacements) = 0 => fixed = line)

\* two replacements were applied, the left one recorded first and changing
\* the length of the line
C5_Witness ==
    /\ Returned
    /\ Len(replacements) >= 2
    /\ replacements[1][1] < replacements[2][1]
    /\ ShiftBefore(replacements[2][1], <<replacements[1]>>) # 0
    /\ fixed # line

SweetLower == <<"s","w","e","e","t">>

CoonLower == <<"c","o","o","n">>

SweetCoon == <<"S","w","e","e","t","C","o","o","n">>

SuicuneSurfed == <<"S","u","i","c","u","n","e"," ","s","u","r","f","e","d">>

\* C6: with "Suicune" in the meta list and neither "sweet" nor "coon" in the
\* whitelist, fix_line_with_meta("Sweet Coon surfed") returns "Suicune
\* surfed": "SweetCoon" scores at least 90 against "Suicune".
C6_ScenarioB ==
    (/\ Returned /\ call = 1
     /\ input = ScenarioB
     /\ Suicune \in Range(meta_names)
     /\ SweetLower \notin whitelist_names_lower
     /\ CoonLower \notin whitelist_names_lower)
    => /\ fixed = SuicuneSurfed
       /\ ~ScoreBelow(Ratio(SweetCoon, Suicune), BigramThreshold)

\* the decisions of pass p on token index k (0-based), for pass 1 the pair
\* (k, k + 1)
DecidedAt(p, k) == {t \in Decisions : t.pass = p /\ t.i = k}

\* C7: once pass 1 accepts a bigram over tokens s and s+1, every later
\* pass-1 pair and the whole of pass 2 leave both indices out, and no other
\* replacement covers either.
C7_BigramPrecedence ==
    \A q \in DOMAIN trace :
        (trace[q].pass = 1 /\ trace[q].why = "accept") =>
            LET s == trace[q].i
            IN  /\ \A p \in DOMAIN trace :
                      /\ (p > q /\ trace[p].pass = 1) => trace[p].i > s + 1
                      /\ (trace[p].pass = 2) => trace[p].i \notin {s, s + 1}
                /\ {s, s + 1} \subseteq used
                /\ pc \in {"pass2", "returned"} => {s, s + 1} \subseteq occupied
                /\ Cardinality({k \in DOMAIN replacements :
                                   replacements[k][1] <= s + 1 /\ s < replacements[k][2]}) = 1

\* a bigram over tokens 0 and 1 was accepted in a line with a third token,
\* which pass 2 went on to decide
C7_Witness ==
    /\ Returned
    /\ \E t \in DecidedAt(1, 0) : t.why = "accept"
    /\ DecidedAt(2, 2) # {}

\* the text between the k-th token and the next holds a sentence boundary
BoundaryAfter(k) == HasBoundary(Slice(line, tokens[k].end, tokens[k + 1].start))

\* no bigram replacement spans a pair of tokens with a boundary between them
NoBigramAcrossBoundary ==
    \A r \in Range(replacements) : r[2] = r[1] + 2 => ~BoundaryAfter(r[1] + 1)

\* C8 as stated: pass 1 never records a replacement across a sentence
\* boundary, and each of the two tokens is then evaluated by the unigram pass.
C8_BoundaryThenBothUnigram ==
    /\ NoBigramAcrossBoundary
    /\ Returned =>
          \A k \in 1..(n - 1) :
              BoundaryAfter(k) => DecidedAt(2, k - 1) # {} /\ DecidedAt(2, k) # {}

\* C8 amended: pass 1 never records a replacement across a sentence
\* boundary, and each of the two tokens is then evaluated by the unigram
\* pass unless an accepted bigram merged it with its other neighbour.
C8_BoundaryBlocksBigram ==
    /\ NoBigramAcrossBoundary
    /\ Returned =>
          \A k \in 1..(n - 1) :
              BoundaryAfter(k) =>
                  /\ DecidedAt(2, k - 1) # {} \/ Covered(k - 1)
                  /\ DecidedAt(2, k) # {} \/ Covered(k)
                  /\ \A r \in Range(replacements) : ~(r[1] <= k - 1 /\ k < r[2])

\* the boundary guard stopped a pair of title-like, unprotected tokens, the
\* unigram pass decided the first of them, and a bigram took the second
C8_Witness ==
    /\ Returned
    /\ \E t \in Decisions :
          /\ t.pass = 1 /\ t.why = "boundary"
          /\ DecidedAt(2, t.i) # {}
          /\ Covered(t.i + 1)

\* C9: a call of fix_line_with_meta never raises, whatever the line and the
\* (successfully constructed) registry: the loop indices stay inside the
\* token list, every token and every token base is a non-empty part of the
\* line, every meta name is non-empty, and the call ends by returning.
C9_Total ==
    /\ call >= 1 => (pc \in {"pass1", "pass2", "returned"} /\ raised = "none")
    /\ pc = "pass1" => (n >= 1 /\ 0 <= i /\ i <= n - 1)
    /\ pc = "pass2" => (n >= 1 /\ 0 <= i /\ i <= n)
    /\ \A k \in DOMAIN tokens :
          /\ 0 <= tokens[k].start /\ tokens[k].start < tokens[k].end
          /\ tokens[k].end <= Len(line)
          /\ Len(TokenBase(k)) > 0
    /\ \A k \in DOMAIN meta_names : Len(meta_names[k]) > 0
    /\ \A r \in Range(replacements) : 0 <= r[1] /\ r[1] < r[2] /\ r[2] <= n

\* the line of apostrophe and hyphen tokens went through both passes with an
\* empty meta list
C9_Witness ==
    /\ Returned
    /\ Len(meta_names) = 0
    /\ input = ApostropheLine
    /\ \E t \in Decisions : t.pass = 2 /\ t.why = "nomatch"

\* the source is not a JSON object holding a "pokemon" list
LacksStructure(src) == ~(src.kind = "object" /\ src.hasPokemon)

\* C10 as stated: a meta source without the required structure makes the
\* construction of MetaPokemon fail; it never succeeds with an empty registry.
C10_MissingStructureFatal == LacksStructure(metaSrc) => pc \in {"new", "raised"}

\* C10 amended: a source that is not a JSON object makes the construction
\* raise before any line is processed; a JSON object with no "pokemon" list
\* is accepted, the registry is empty and every line is returned unchanged.
C10_OnlyNonObjectFatal ==
    /\ (metaSrc.kind # "object" \/ (wlSrc # NoPath /\ wlSrc.kind # "object"))
          => (pc \in {"new", "raised"} /\ call = 0)
    /\ (metaSrc.kind = "object" /\ ~metaSrc.hasPokemon /\ pc # "new")
          => /\ pc # "raised"
             /\ meta_names = << >>
             /\ DOMAIN meta_map = {}
             /\ (wlSrc = NoPath => whitelist_names_lower = {})
             /\ (Returned => fixed = line)

\* a line with title-like tokens was normalized under the registry built
\* from the object with no "pokemon" list
C10_Witness ==
    /\ Returned
    /\ metaSrc = SrcNoPokemon
    /\ \E t \in Decisions : t.pass = 1 /\ t.why = "nomatch"

\* what MetaPokemon.__init__ made of the two sources
Loaded ==
    <<LoadNames(metaSrc), LoadMap(metaSrc),
      IF wlSrc = NoPath THEN DOMAIN LoadMap(metaSrc) ELSE LoadWhitelist(wlSrc)>>

\* C11: a call of fix_line_with_meta leaves the registry as the constructor
\* built it, and its result depends on the line and the registry only: in a
\* file normalized event by event, in any order of the texts, a text that
\* was normalized before gets the result it got then.
C11_PureAndFramed ==
    /\ call >= 1 => registry = Loaded
    /\ Returned => \A p \in subs : p[1] = line => p[2] = fixed

\* a text changed by a bigram was normalized a second time, after another
\* text that a bigram changed as well
C11_Witness ==
    /\ Returned
    /\ fixed # line
    /\ \E t \in Decisions : t.pass = 1 /\ t.why = "accept"
    /\ <<line, fixed>> \in subs
    /\ \E p \in subs : p[1] # line /\ p[2] # p[1]

\* the token indices of the k-th recorded replacement
TokenRange(k) == replacements[k][1]..(replacements[k][2] - 1)

\* C12: the recorded replacements never overlap, while the passes run and
\* once both are complete: no token index belongs to two replacement ranges,
\* and no two character ranges handed to the rewriter intersect.
C12_NonOverlapping ==
    /\ \A a, b \in DOMAIN replacements :
          a # b => TokenRange(a) \cap TokenRange(b) = {}
    /\ \A a, b \in DOMAIN replacements :
          a # b =>
              LET ra == CharRepls(tokens, replacements)[a]
                  rb == CharRepls(tokens, replacements)[b]
              IN  ra[2] <= rb[1] \/ rb[2] <= ra[1]

\* both passes are complete, a bigram and a unigram replacement are recorded,
\* and the first token of the bigram is one the unigram pass would have
\* replaced had pass 2 not passed over it
C12_Witness ==
    /\ Returned
    /\ \E a, b \in DOMAIN replacements :
          /\ replacements[a][2] = replacements[a][1] + 2
          /\ replacements[b][2] = replacements[b][1] + 1
          /\ UnigramDecision(words[replacements[a][1] + 1], meta_names, DOMAIN meta_map,
                             whitelist_names_lower).kind = "accept"

\* the score of the string a matcher was asked about against every loaded
\* name, each computed on its own
QueryScores ==
    SubSeq([k \in DOMAIN meta_names |-> Ratio(matched.query, meta_names[k])],
           1, Len(meta_names))

\* the least index whose score none exceeds and none before it equals
FirstMax(sc) ==
    CHOOSE k \in DOMAIN sc :
        /\ \A j \in DOMAIN sc : sc[j].num * sc[k].den <= sc[k].num * sc[j].den
        /\ \A j \in 1..(k - 1) : sc[j].num * sc[k].den < sc[k].num * sc[j].den

\* what a matcher must return when sc are the scores of the loaded names and
\* th is the threshold
Expected(sc, th) ==
    IF meta_names = << >> THEN [found |-> FALSE, best |-> << >>, score |-> [num |-> 0, den |-> 1]]
    ELSE LET k == FirstMax(sc)
         IN  IF 100 * sc[k].num >= th * sc[k].den
             THEN [found |-> TRUE, best |-> meta_names[k], score |-> sc[k]]
             ELSE [found |-> FALSE, best |-> << >>, score |-> sc[k]]

\* C13: a call of best_unigram_match or best_bigram_match with a threshold
\* returns the name of greatest score over the whole list of loaded names,
\* the earliest such name in load order when several share that score, and it
\* returns no match exactly when the list is empty or that greatest score is
\* strictly below the threshold (a score equal to the threshold is a match).
C13_BestOfWholeList ==
    (matched.matcher # "none" /\ matched.explicit) =>
        \A sc \in {QueryScores} : matched.result = Expected(sc, matched.threshold)

\* a matcher was asked about a string for which two different loaded names
\* share the greatest score, that score reaches the threshold, and the
\* earlier of the two was returned
C13_Witness ==
    /\ matched.matcher # "none"
    /\ matched.explicit
    /\ meta_names # << >>
    /\ \E sc \in {QueryScores} :
          LET k == FirstMax(sc)
          IN  /\ \E j \in (k + 1)..Len(meta_names) :
                     /\ meta_names[j] # meta_names[k]
                     /\ sc[j].num * sc[k].den = sc[k].num * sc[j].den
              /\ 100 * sc[k].num >= matched.threshold * sc[k].den
              /\ matched.result.found
              /\ matched.result.best = meta_names[k]

\* the k-th recorded replacement covers one token / two tokens
IsUnigram(k) == replacements[k][2] = replacements[k][1] + 1

IsBigram(k) == replacements[k][2] = replacements[k][1] + 2

\* the lowercased loaded names
MetaLower == {Lower(nm) : nm \in Range(meta_names)}

\* C14: every single-token replacement recorded by pass 2 satisfies all the
\* unigram guards: the token has at least 4 characters and is title-like, its
\* base has no hyphen, is not in the whitelist (lowercased), not in the
\* do-not-touch set and not a meta name (lowercased); the replacement is a
\* loaded name that scores at least 75 against the base, differs from the
\* base, starts with the same letter up to case, and differs from the base in
\* length by at most 2.
C14_UnigramGuarded ==
    \A k \in DOMAIN replacements :
        IsUnigram(k) =>
            LET w    == words[replacements[k][1] + 1]
                base == Base(w)
                best == replacements[k][3]
                sc   == Ratio(base, best)
            IN  /\ Len(w) >= 4
                /\ IsTitleLike(w)
                /\ "-" \notin Range(base)
                /\ Lower(base) \notin whitelist_names_lower
                /\ base \notin DO_NOT_FIX_UNIGRAMS
                /\ Lower(base) \notin MetaLower
                /\ best \in Range(meta_names)
                /\ 100 * sc.num >= 75 * sc.den
                /\ best # base
                /\ LowerChar(best[1]) = LowerChar(base[1])
                /\ Abs(Len(best) - Len(base)) <= 2

\* a single-token replacement is recorded whose name scores exactly 75
\* against the base of its token
C14_Witness ==
    \E k \in DOMAIN replacements :
        /\ IsUnigram(k)
        /\ LET sc == Ratio(Base(words[replacements[k][1] + 1]), replacements[k][3])
           IN  100 * sc.num = 75 * sc.den

\* C15: every two-token replacement recorded by pass 1 satisfies all the
\* bigram guards: it covers two consecutive tokens of the line, both
\* title-like; the replacement is a loaded name that scores at least 90
\* against the join of the two bases with nothing between them, starts with
\* the same letter as the join up to case, and differs from the join in
\* length by at most 3. No replacement covers more than two tokens.
C15_BigramGuarded ==
    \A k \in DOMAIN replacements :
        /\ IsUnigram(k) \/ IsBigram(k)
        /\ IsBigram(k) =>
              LET s    == replacements[k][1]
                  join == Base(words[s + 1]) \o Base(words[s + 2])
                  best == replacements[k][3]
                  sc   == Ratio(join, best)
              IN  /\ s >= 0 /\ s + 2 <= n
                  /\ IsTitleLike(words[s + 1])
                  /\ IsTitleLike(words[s + 2])
                  /\ best \in Range(meta_names)
                  /\ 100 * sc.num >= 90 * sc.den
                  /\ LowerChar(best[1]) = LowerChar(join[1])
                  /\ Abs(Len(best) - Len(join)) <= 3

\* a two-token replacement is recorded whose name scores exactly 90 against
\* the join of the two bases
C15_Witness ==
    \E k \in DOMAIN replacements :
        /\ IsBigram(k)
        /\ LET s  == replacements[k][1]
               sc == Ratio(Base(words[s + 1]) \o Base(words[s + 2]), replacements[k][3])
           IN  100 * sc.num = 90 * sc.den

\* the positions of the entries of a source that carry a name
Named(src) == {k \in DOMAIN src.pokemon : src.pokemon[k].hasEn /\ src.pokemon[k].en # << >>}

\* the k-th of them, counting from the start of the source
NthNamed(src, k) == CHOOSE j \in Named(src) : Cardinality({q \in Named(src) : q <= j}) = k

\* C16: when both sources are JSON objects the construction does not fail
\* on an entry without an "en" name (missing or empty): such entries are
\* passed over, meta_names holds the names of the other entries of the meta
\* source, all of them and in source order; with no whitelist source the
\* whitelist is exactly the set of the lowercased meta names, and with one it
\* is exactly the set of the lowercased names of that source's named entries.
C16_RegistryLoad ==
    (pc # "new" /\ metaSrc.kind = "object" /\ (wlSrc = NoPath \/ wlSrc.kind = "object")) =>
        /\ raised # "AttributeError"
        /\ Len(meta_names) = Cardinality(Named(metaSrc))
        /\ \A k \in DOMAIN meta_names :
              meta_names[k] = metaSrc.pokemon[NthNamed(metaSrc, k)].en
        /\ wlSrc = NoPath =>
              whitelist_names_lower = {Lower(meta_names[k]) : k \in DOMAIN meta_names}
        /\ wlSrc # NoPath =>
              whitelist_names_lower = {Lower(wlSrc.pokemon[j].en) : j \in Named(wlSrc)}

\* a line was normalized under a registry built from a meta source and a
\* whitelist source that both hold entries without a name, the meta source
\* one with no "en" key and one with an empty "en"
C16_Witness ==
    /\ Returned
    /\ wlSrc # NoPath
    /\ \E k \in DOMAIN metaSrc.pokemon : ~metaSrc.pokemon[k].hasEn
    /\ \E k \in DOMAIN metaSrc.pokemon :
          metaSrc.pokemon[k].hasEn /\ metaSrc.pokemon[k].en = << >>
    /\ \E k \in DOMAIN wlSrc.pokemon : k \notin Named(wlSrc)
    /\ Len(meta_names) >= 2

\* the greatest score among the scores sc
BestOf(sc) == CHOOSE top \in Range(sc) : \A j \in DOMAIN sc : sc[j].num * top.den <= top.num * sc[j].den

\* a matcher was called with no threshold argument, on a registry with names
DefaultCall == matched.matcher # "none" /\ ~matched.explicit /\ meta_names # << >>

\* C17: called without a threshold, best_unigram_match applies 75 and
\* best_bigram_match applies 90: the unigram matcher returns a match exactly
\* when the best score is at least 75 (a score of 75 is a match), and the
\* bigram matcher exactly when it is at least 90 (a score of 89 is no match).
C17_DefaultsAre75And90 ==
    DefaultCall =>
        \A sc \in {QueryScores} : \A best \in {BestOf(sc)} :
            matched.result.found <=>
                100 * best.num >= (IF matched.matcher = "bigram" THEN 90 ELSE 75) * best.den

\* C17 amended: called without a threshold, both matchers apply 80: each
\* returns a match exactly when the best score over the loaded names is at
\* least 80, and then the first name with that score.
C17_DefaultsAre80 ==
    DefaultCall =>
        \A sc \in {QueryScores} : matched.result = Expected(sc, 80)

\* best_unigram_match was called without a threshold on a string whose best
\* score is exactly 75, and it returned no match
C17_Witness ==
    /\ DefaultCall
    /\ matched.matcher = "unigram"
    /\ \E sc \in {QueryScores} : \E best \in {BestOf(sc)} :
          100 * best.num = 75 * best.den
    /\ ~matched.result.found

====
